---- MODULE Spec2Model ----
(***************************************************************************)
(* FindMyStore (agent.py): the store registry, the seed and dynamic        *)
(* inventory, check_stock, find_cheapest, shopping_list_optimize and       *)
(* simulate_restock, the alert subscriptions and run_agent, as a state     *)
(* machine over the module-level globals.                                  *)
(*                                                                         *)
(* Python values:  None is <<>> and an optional value x is <<x>>; a dict   *)
(* is a function whose DOMAIN is its key set; a dict whose insertion order *)
(* is read (offerings) is a sequence of <<key, value>> records; money is   *)
(* an integer number of rupees, a value rounded to 2 decimals an integer   *)
(* number of hundredths.                                                   *)
(***************************************************************************)
EXTENDS Integers, Sequences, FiniteSets, TLC

VARIABLES
    gmaps,              \* agent.py:49-53  whether the Maps client exists
    inventory,          \* agent.py:78     seed inventory
    dynamic_inventory,  \* agent.py:86     lazily generated inventory
    last_store_cache,   \* agent.py:89     _last_store_cache
    subscriptions,      \* agent.py:249    _subscriptions
    chat_history,       \* agent.py:380    chat_history
    fetched,            \* history: None, or the result of the latest fetch_stores
    generations,        \* history: number of inventory entries generated so far
    restocks,           \* history: number of simulate_restock calls so far
    ret                 \* the last call: its name, arguments and return value

vars == <<gmaps, inventory, dynamic_inventory, last_store_cache, subscriptions,
         chat_history, fetched, generations, restocks, ret>>

--------------------------------------------------------------------------
(* Bounds of the model.                                                    *)

\* fetch_stores with a Maps client returns 0..MaxPlaces places
MaxPlaces == 2
\* at most MaxWrites inventory writes: entries generated and
\* simulate_restock calls
MaxWrites == 1
\* a shopping list has at most MaxList raw entries
MaxList == 3
\* the pure-function specification uses stores 1..GStores
GStores == 2
\* at most MaxSubs subscriptions
MaxSubs == 2
\* at most MaxTurns answered run_agent calls
MaxTurns == 2

--------------------------------------------------------------------------
(* Program constants.                                                      *)

None == <<>>
Some(x) == <<x>>
EmptyDict == [k \in {} |-> 0]

Max2(a, b) == IF a >= b THEN a ELSE b

GenQtyHigh == 12
DefaultRestockQty == 10
Hundred == 100

PriceLadder == <<79, 99, 129, 149, 179, 199, 249, 299, 349, 399, 899, 999>>
RestockLadder == <<99, 129, 149, 199, 249, 299>>

\* store records carry the fields the modelled code reads: id everywhere,
\* city and category in stores_fallback (read by the fallback filter)
stores_fallback ==
    << [id |-> 1, city |-> "Hyderabad", category |-> "grocery"],
       [id |-> 2, city |-> "Hyderabad", category |-> "pharmacy"],
       [id |-> 3, city |-> "Hyderabad", category |-> "electronics"],
       [id |-> 4, city |-> "Hyderabad", category |-> "clothing"] >>

SeedInventory ==
    (1 :> ( "XYZ Shampoo" :> [qty |-> 12, price |-> 150]
         @@ "Milk Lotion" :> [qty |-> 0,  price |-> 199]
         @@ "Rice 10kg"   :> [qty |-> 8,  price |-> 489] ))
 @@ (2 :> ( "XYZ Shampoo" :> [qty |-> 4,  price |-> 155]
         @@ "Milk Lotion" :> [qty |-> 7,  price |-> 189] ))
 @@ (3 :> ( "Laptop Bag"  :> [qty |-> 6,  price |-> 899]
         @@ "USB Cable"   :> [qty |-> 15, price |-> 149] ))
 @@ (4 :> ( "T-Shirt"     :> [qty |-> 10, price |-> 399] ))

--------------------------------------------------------------------------
(* Inputs: the arguments of the calls and the outcomes of the random draws *)
(* are taken from these sets.                                              *)

Products == {"XYZ Shampoo", "Milk Lotion", "Rice 10kg"}
RawNames == {"XYZ Shampoo", " Milk Lotion ", "Rice 10kg", "  "}
Cities == {"hyderabad", "Pune"}
Categories == {None, Some("pharmacy")}
MaxPrices == {None, Some(150)}
\* direct calls (check_stock, simulate_restock, ui_get_directions) use the
\* seeded store ids and the first id outside the seed inventory
StoreIds == 1 .. Len(stores_fallback) + 1
RestockProducts == {"XYZ Shampoo"}
RestockQtys == {DefaultRestockQty, 0 - DefaultRestockQty}

\* random.randint(0, 12): both ends; random.choice(ladder): the first rung
GenQtys == {0, GenQtyHigh}
GenPrices == {PriceLadder[1]}
RestockPrices == {RestockLadder[1]}

\* the worked example of the specification (section 8): stores A = 1 and
\* B = 2, three products, prices 3, 4, 5 and 10
\* subscribe_alert is called with these products and cities
SubProducts == {"xyz shampoo ", "Rice 10kg"}
SubCities == {"Pune", " Hyderabad"}

\* run_agent is called with these queries
Queries == {"q1", "q2"}
\* the inputs the dispatcher hands to SubscribeAlertTool
ToolInputs == {"xyz shampoo |Pune", "xyz shampoo"}
\* what agent.invoke returns: a dict with the keys given, or another value
Responses ==
    { [dict |-> TRUE,  output |-> Some("out"), output_text |-> None],
      [dict |-> TRUE,  output |-> Some("out"), output_text |-> Some("text")],
      [dict |-> TRUE,  output |-> None,        output_text |-> Some("text")],
      [dict |-> TRUE,  output |-> None,        output_text |-> None],
      [dict |-> FALSE, output |-> None,        output_text |-> None] }
\* the message of an exception agent.invoke raises by itself
DispatchErrors == {"dispatch"}

GProducts == {"Milk", "Rice", "Bread"}
GRawNames == {"Milk", " Rice", "Bread "}
GPrices == {3, 4, 5, 10}

\* str.lower() on the names in play
Lower(s) ==
    CASE s = "Hyderabad"   -> "hyderabad"
      [] s = "Pune"        -> "pune"
      [] s = "XYZ Shampoo" -> "xyz shampoo"
      [] s = "Rice 10kg"   -> "rice 10kg"
      [] OTHER             -> s

\* str.strip() on the raw names in play
Strip(s) ==
    CASE s = " Milk Lotion " -> "Milk Lotion"
      [] s = "  "             -> ""
      [] s = " Rice"          -> "Rice"
      [] s = "Bread "         -> "Bread"
      [] s = "xyz shampoo "   -> "xyz shampoo"
      [] s = " Hyderabad"     -> "Hyderabad"
      [] OTHER                -> s

--------------------------------------------------------------------------
(* Inventory helpers.                                                      *)

\* dict.setdefault(store_id, {}) on dynamic_inventory
SetDefault(dyn, sid) ==
    IF sid \in DOMAIN dyn THEN dyn ELSE dyn @@ (sid :> EmptyDict)

\* d[k] = v on a dict
DictPut(d, k, v) == [x \in DOMAIN d \cup {k} |-> IF x = k THEN v ELSE d[x]]

\* ensure_dynamic_inventory: a mutation that regenerates on every call
EnsureAlwaysRegenerates(dyn, sid, product, q, pr) ==
    LET d1 == SetDefault(dyn, sid)
    IN  DictPut(d1, sid, DictPut(d1[sid], product, [qty |-> q, price |-> pr]))

\* ensure_dynamic_inventory(store_id, product) with the two random draws
ensure_dynamic_inventory(dyn, sid, product, q, pr) ==
    LET d1 == SetDefault(dyn, sid)
    IN  IF product \notin DOMAIN d1[sid]
        THEN DictPut(d1, sid, DictPut(d1[sid], product, [qty |-> q, price |-> pr]))
        ELSE d1

\* the dynamic_inventory after get_inventory(store_id)
GetInventoryDyn(inv, dyn, sid) ==
    IF sid \in DOMAIN inv THEN dyn ELSE SetDefault(dyn, sid)

\* the dict get_inventory(store_id) returns
get_inventory(inv, dyn, sid) ==
    IF sid \in DOMAIN inv THEN inv[sid] ELSE SetDefault(dyn, sid)[sid]

\* check_stock: a mutation that generates afresh on every read of a store
\* outside the seed inventory
CheckStockRegenerates(inv, dyn, sid, product, q, pr) ==
    IF sid \in DOMAIN inv /\ product \in DOMAIN inv[sid]
    THEN [dyn  |-> dyn,
          info |-> [store_id |-> sid, product |-> product,
                    qty |-> inv[sid][product].qty,
                    price |-> Some(inv[sid][product].price)]]
    ELSE LET d2 == EnsureAlwaysRegenerates(dyn, sid, product, q, pr)
         IN  [dyn  |-> d2,
              info |-> [store_id |-> sid, product |-> product,
                        qty |-> IF sid \in DOMAIN inv THEN 0 ELSE q,
                        price |-> IF sid \in DOMAIN inv THEN None ELSE Some(pr)]]

\* check_stock(store_id, product): the returned record and the
\* dynamic_inventory it leaves; q, pr are the draws of a generation
check_stock(inv, dyn, sid, product, q, pr) ==
    LET d1 == GetInventoryDyn(inv, dyn, sid)
        i1 == get_inventory(inv, dyn, sid)
    IN  IF product \in DOMAIN i1
        THEN [dyn  |-> d1,
              info |-> [store_id |-> sid, product |-> product,
                        qty |-> i1[product].qty, price |-> Some(i1[product].price)]]
        ELSE LET d2 == ensure_dynamic_inventory(d1, sid, product, q, pr)
                 i2 == get_inventory(inv, d2, sid)
                 data == IF product \in DOMAIN i2
                         THEN [qty |-> i2[product].qty, price |-> Some(i2[product].price)]
                         ELSE [qty |-> 0, price |-> None]
             IN  [dyn  |-> d2,
                  info |-> [store_id |-> sid, product |-> product,
                            qty |-> data.qty, price |-> data.price]]

\* the inventory writes so far, with n more entries generated
Writes(n) == generations + restocks + n

\* the (quantity, price) outcomes of one generation
Draw == [q : GenQtys, pr : GenPrices]

\* check_stock(sid, product) would generate an entry
NeedsDraw(inv, dyn, sid, product) ==
    /\ sid \in DOMAIN inv => product \notin DOMAIN inv[sid]
    /\ sid \in DOMAIN dyn => product \notin DOMAIN dyn[sid]

\* the pairs for which a loop over the stores of space and the products of
\* items generates an entry
GenPairs(inv, dyn, space, items) ==
    {pr \in {space[i].id : i \in 1 .. Len(space)} \X items :
        NeedsDraw(inv, dyn, pr[1], pr[2])}

DrawOf(rnd, sid, product) ==
    IF <<sid, product>> \in DOMAIN rnd THEN rnd[<<sid, product>>]
    ELSE CHOOSE d \in Draw : TRUE

--------------------------------------------------------------------------
(* State.                                                                  *)

NoCall == [op |-> "none"]

Init ==
    /\ gmaps \in BOOLEAN
    /\ inventory = SeedInventory
    /\ dynamic_inventory = EmptyDict
    /\ last_store_cache = << >>
    /\ fetched = None
    /\ subscriptions = << >>
    /\ chat_history = << >>
    /\ generations = 0
    /\ restocks = 0
    /\ ret = NoCall

--------------------------------------------------------------------------
(* fetch_stores.                                                           *)

\* the cached record of a store
StoreRecord(s) == [id |-> s.id]

\* the fallback branch: filter by city (case-insensitive), then category
FallbackResults(city, category) ==
    LET byCity == SelectSeq(stores_fallback, LAMBDA s : Lower(s.city) = Lower(city))
        byCat  == IF category # None
                  THEN SelectSeq(byCity, LAMBDA s : Some(s.category) = category)
                  ELSE byCity
    IN  [i \in 1 .. Len(byCat) |-> StoreRecord(byCat[i])]

\* the Maps branch: n places, ids 1..n in answer order
PlacesResults(n) == [i \in 1 .. n |-> StoreRecord([id |-> i])]

\* the lists fetch_stores builds, over the cities and categories of the
\* call and the answers of up to MaxPlaces places: the Maps branch reads
\* city and category only to form its requests
FetchResults ==
    IF gmaps THEN {PlacesResults(n) : n \in 0 .. MaxPlaces}
    ELSE {FallbackResults(city, category) : city \in Cities, category \in Categories}

fetch_stores ==
    \E results \in FetchResults :
        /\ last_store_cache' = results
        /\ fetched' = Some(results)
        /\ ret' = [op |-> "fetch_stores", results |-> results]
        /\ UNCHANGED <<subscriptions, chat_history, gmaps, inventory,
                       dynamic_inventory, generations, restocks>>

\* `_last_store_cache[:] or stores_fallback[:]`: a mutation without the
\* fallback
SearchSpaceCacheOnly(cache) == cache

\* `_last_store_cache[:] or stores_fallback[:]`
SearchSpace(cache) ==
    IF cache # << >> THEN cache
    ELSE [i \in 1 .. Len(stores_fallback) |-> StoreRecord(stores_fallback[i])]

--------------------------------------------------------------------------
(* check_stock as a call.                                                  *)

CheckStock ==
    \E sid \in StoreIds, product \in Products :
    \E d \in IF NeedsDraw(inventory, dynamic_inventory, sid, product)
             THEN Draw ELSE {CHOOSE x \in Draw : TRUE} :
        LET r == check_stock(inventory, dynamic_inventory, sid, product, d.q, d.pr)
            gen == NeedsDraw(inventory, dynamic_inventory, sid, product)
            n == IF gen THEN 1 ELSE 0
        IN  /\ Writes(n) <= MaxWrites
            /\ generations' = generations + n
            /\ dynamic_inventory' = r.dyn
            /\ ret' = [op |-> "check_stock", info |-> r.info, generated |-> gen]
            /\ UNCHANGED <<subscriptions, chat_history, gmaps, inventory,
                           last_store_cache, fetched, restocks>>

--------------------------------------------------------------------------
(* find_cheapest.                                                          *)

\* `info["qty"] > 0 and info["price"] is not None`: a mutation that drops
\* the quantity test
InStockAnyQty(info) == info.price # None

\* `info["qty"] > 0 and info["price"] is not None`
InStock(info) == info.qty > 0 /\ info.price # None

\* `max_price is not None and info["price"] > max_price`: a mutation that
\* never skips
OverMaxNever(price, max_price) == FALSE

\* `max_price is not None and info["price"] > max_price`
OverMax(price, max_price) == max_price # None /\ price[1] > max_price[1]

\* `best is None or info["price"] < best["price"]`
Cheaper(info, best) == best = None \/ info.price[1] < best[1].price[1]

\* the for loop of find_cheapest from store i on
RECURSIVE FindCheapestFrom(_, _, _, _, _, _, _, _)
FindCheapestFrom(inv, dyn, space, i, best, product, max_price, rnd) ==
    IF i > Len(space) THEN [dyn |-> dyn, best |-> best]
    ELSE LET s == space[i]
             d == DrawOf(rnd, s.id, product)
             r == check_stock(inv, dyn, s.id, product, d.q, d.pr)
             info == r.info
             nb == IF InStock(info)
                   THEN IF OverMax(info.price, max_price) THEN best
                        ELSE IF Cheaper(info, best)
                             THEN Some([store_id |-> info.store_id, product |-> info.product,
                                        qty |-> info.qty, price |-> info.price, store |-> s])
                             ELSE best
                   ELSE best
         IN  FindCheapestFrom(inv, r.dyn, space, i + 1, nb, product, max_price, rnd)

find_cheapest ==
    \E product \in Products, max_price \in MaxPrices :
        LET space == SearchSpace(last_store_cache)
            gen == GenPairs(inventory, dynamic_inventory, space, {product})
        IN  /\ Writes(Cardinality(gen)) <= MaxWrites
            /\ generations' = generations + Cardinality(gen)
            /\ \E rnd \in [gen -> Draw] :
                 LET r == FindCheapestFrom(inventory, dynamic_inventory, space, 1, None,
                                           product, max_price, rnd)
                 IN  /\ dynamic_inventory' = r.dyn
                     /\ ret' = [op |-> "find_cheapest", product |-> product,
                                max_price |-> max_price, search_space |-> space,
                                best |-> r.best]
            /\ UNCHANGED <<subscriptions, chat_history, gmaps, inventory,
                           last_store_cache, fetched, restocks>>

--------------------------------------------------------------------------
(* shopping_list_optimize.                                                 *)

\* set([p.strip() for p in products if p.strip()])
Needed(products) ==
    {Strip(products[i]) : i \in 1 .. Len(products)} \ {""}

\* the inner for loop (lines 208-211): the offer of store sid over items
RECURSIVE OfferFor(_, _, _, _, _, _)
OfferFor(inv, dyn, sid, items, o, rnd) ==
    IF items = {} THEN [dyn |-> dyn, o |-> o]
    ELSE LET item == CHOOSE x \in items : TRUE
             d == DrawOf(rnd, sid, item)
             r == check_stock(inv, dyn, sid, item, d.q, d.pr)
             o2 == IF InStock(r.info) THEN DictPut(o, item, r.info.price[1]) ELSE o
         IN  OfferFor(inv, r.dyn, sid, items \ {item}, o2, rnd)

\* offerings[sid] = o on an insertion-ordered dict
OrderedPut(offerings, sid, o) ==
    IF \E j \in 1 .. Len(offerings) : offerings[j].sid = sid
    THEN [j \in 1 .. Len(offerings) |->
            IF offerings[j].sid = sid THEN [sid |-> sid, offer |-> o] ELSE offerings[j]]
    ELSE Append(offerings, [sid |-> sid, offer |-> o])

\* offerings.pop(best_sid, None): a mutation that pops nothing
OrderedPopNothing(offerings, sid) == offerings

\* offerings.pop(sid, None)
OrderedPop(offerings, sid) == SelectSeq(offerings, LAMBDA e : e.sid # sid)

\* the outer for loop (lines 205-213) from store i on
RECURSIVE BuildOfferings(_, _, _, _, _, _, _)
BuildOfferings(inv, dyn, space, i, offerings, needed, rnd) ==
    IF i > Len(space) THEN [dyn |-> dyn, offerings |-> offerings]
    ELSE LET sid == space[i].id
             r == OfferFor(inv, dyn, sid, needed, EmptyDict, rnd)
             next == IF DOMAIN r.o # {} THEN OrderedPut(offerings, sid, r.o)
                     ELSE offerings
         IN  BuildOfferings(inv, r.dyn, space, i + 1, next, needed, rnd)

\* sum(offer[i] for i in cover): a mutation that adds one price only
SumPricesOneOnly(offer, cover) ==
    IF cover = {} THEN 0 ELSE offer[CHOOSE x \in cover : TRUE]

\* sum(offer[i] for i in cover)
RECURSIVE SumPrices(_, _)
SumPrices(offer, cover) ==
    IF cover = {} THEN 0
    ELSE LET i == CHOOSE x \in cover : TRUE
         IN  offer[i] + SumPrices(offer, cover \ {i})

\* `score < best_score`: a mutation with <=
ScoreLessOrEqual(cost, n, best_score) ==
    best_score = None \/ cost * best_score[1].n <= best_score[1].cost * n

\* `score < best_score`, score = cost / n, best_score = inf (None) or the
\* quotient best_score.cost / best_score.n; the quotients of two small
\* integers compare as the fractions do
ScoreLess(cost, n, best_score) ==
    best_score = None \/ cost * best_score[1].n < best_score[1].cost * n

\* `remaining.intersection(offer.keys())`: a mutation that takes the whole
\* offer
CoverWholeOffer(offer, remaining) == DOMAIN offer

\* `cover = remaining.intersection(offer.keys())`
CoverOf(offer, remaining) == remaining \cap DOMAIN offer

\* the for loop of lines 221-227 from entry j on
RECURSIVE PickBest(_, _, _, _)
PickBest(offerings, remaining, j, best) ==
    IF j > Len(offerings) THEN best
    ELSE LET offer == offerings[j].offer
             cover == CoverOf(offer, remaining)
             cost  == SumPrices(offer, cover)
             nb == IF cover # {} /\ ScoreLess(cost, Cardinality(cover), best.best_score)
                   THEN [best_sid |-> Some(offerings[j].sid), best_cover |-> cover,
                         best_score |-> Some([cost |-> cost, n |-> Cardinality(cover)])]
                   ELSE best
         IN  PickBest(offerings, remaining, j + 1, nb)

\* `total_cost += subtotal`: a mutation that overwrites
AddCostOverwrites(total_cost, subtotal) == subtotal

\* `total_cost += chosen[-1]["subtotal"]`
AddCost(total_cost, subtotal) == total_cost + subtotal

\* `not best_sid`
NotTruthy(best_sid) == best_sid = None \/ best_sid = Some(0)

\* round(total_cost, 2) of an integer-valued amount, in hundredths
Round2(total_cost) == total_cost * Hundred

\* the while loop of lines 219-239; each plan entry also records `left`,
\* the keys of offerings after the pop of its iteration
RECURSIVE GreedyLoop(_, _, _, _)
GreedyLoop(offerings, remaining, chosen, total_cost) ==
    LET b == PickBest(offerings, remaining, 1,
                      [best_sid |-> None, best_cover |-> {}, best_score |-> None])
    IN  IF remaining = {} \/ NotTruthy(b.best_sid)
        THEN [chosen |-> chosen, remaining |-> remaining, total_cost |-> total_cost]
        ELSE LET sid == b.best_sid[1]
                 offer == (CHOOSE e \in {offerings[j] : j \in 1 .. Len(offerings)} :
                              e.sid = sid).offer
                 items == [i \in b.best_cover |-> offer[i]]
                 subtotal == SumPrices(offer, b.best_cover)
                 popped == OrderedPop(offerings, sid)
                 entry == [store_id |-> sid, items |-> items, subtotal |-> subtotal,
                           left |-> [j \in 1 .. Len(popped) |-> popped[j].sid]]
             IN  GreedyLoop(popped, remaining \ b.best_cover,
                            Append(chosen, entry), AddCost(total_cost, subtotal))

\* lines 215-246: the result for the given offerings
Plan(offerings, needed) ==
    LET g == GreedyLoop(offerings, needed, << >>, 0)
    IN  [covered_all |-> Cardinality(g.remaining) = 0,
         plan |-> g.chosen,
         not_found |-> g.remaining,
         total_cost |-> Round2(g.total_cost)]

\* bounded lists of raw names
Lists(names) == UNION {[1 .. n -> names] : n \in 0 .. MaxList}

\* the needed sets of the bounded lists over names
NeededSets(names) == {Needed(products) : products \in Lists(names)}

RawNeeded == NeededSets(RawNames)

\* the call shopping_list_optimize(products) for some list products with
\* needed set in neededs; the body reads products only through needed
Optimize(neededs) ==
    \E needed \in neededs :
        LET space == SearchSpace(last_store_cache)
            gen == GenPairs(inventory, dynamic_inventory, space, needed)
        IN  IF needed = {}
            THEN /\ ret' = [op |-> "shopping_list_optimize", message |-> TRUE,
                            needed |-> needed]
                 /\ UNCHANGED <<subscriptions, chat_history, gmaps,
                                inventory, dynamic_inventory,
                                last_store_cache,
                                fetched, generations, restocks>>
            ELSE /\ Writes(Cardinality(gen)) <= MaxWrites
                 /\ generations' = generations + Cardinality(gen)
                 /\ \E rnd \in [gen -> Draw] :
                      LET b == BuildOfferings(inventory, dynamic_inventory, space, 1,
                                              << >>, needed, rnd)
                      IN  /\ dynamic_inventory' = b.dyn
                          /\ ret' = [op |-> "shopping_list_optimize", message |-> FALSE,
                                     needed |-> needed, search_space |-> space,
                                     offerings |-> b.offerings,
                                     result |-> Plan(b.offerings, needed)]
                 /\ UNCHANGED <<subscriptions, chat_history, gmaps,
                                inventory, last_store_cache, fetched,
                                restocks>>

shopping_list_optimize == Optimize(RawNeeded)

--------------------------------------------------------------------------
(* subscribe_alert.                                                        *)

\* _subscriptions.append({"product": product.strip(), "city": city.strip()})
Subscribed(subs, product, city) ==
    Append(subs, [product |-> Strip(product), city |-> Strip(city)])

subscribe_alert ==
    \E product \in SubProducts, city \in SubCities :
        /\ Len(subscriptions) < MaxSubs
        /\ subscriptions' = Subscribed(subscriptions, product, city)
        /\ ret' = [op |-> "subscribe_alert", product |-> product, city |-> city]
        /\ UNCHANGED <<chat_history, gmaps, inventory, dynamic_inventory,
                       last_store_cache, fetched, generations, restocks>>

--------------------------------------------------------------------------
(* simulate_restock.                                                       *)

\* s["product"].lower() == product.lower(): a mutation that compares the
\* names as they are
MatchesExactly(s, product) == s.product = product

\* s["product"].lower() == product.lower()
Matches(s, product) == Lower(s.product) = Lower(product)

\* hits = [s for s in _subscriptions if ...]
Hits(subs, product) == SelectSeq(subs, LAMBDA s : Matches(s, product))

\* lines 258-262: the dict of the store after the restock
Restocked(inv, product, qty, pr) ==
    IF product \notin DOMAIN inv
    THEN DictPut(inv, product, [qty |-> qty, price |-> pr])
    ELSE DictPut(inv, product,
                 [qty |-> Max2(0, inv[product].qty) + qty, price |-> inv[product].price])

simulate_restock ==
    \E product \in RestockProducts, sid \in StoreIds, qty \in RestockQtys :
    \E pr \in IF product \in DOMAIN get_inventory(inventory, dynamic_inventory, sid)
              THEN {RestockLadder[1]} ELSE RestockPrices :
        LET d1 == GetInventoryDyn(inventory, dynamic_inventory, sid)
            new == Restocked(get_inventory(inventory, dynamic_inventory, sid),
                             product, qty, pr)
        IN  /\ Writes(0) < MaxWrites
            /\ restocks' = restocks + 1
            /\ IF sid \in DOMAIN inventory
               THEN /\ inventory' = DictPut(inventory, sid, new)
                    /\ dynamic_inventory' = d1
               ELSE /\ dynamic_inventory' = DictPut(d1, sid, new)
                    /\ inventory' = inventory
            /\ ret' = [op |-> "simulate_restock", product |-> product,
                       store_id |-> sid, qty |-> qty,
                       hits |-> Len(Hits(subscriptions, product))]
            /\ UNCHANGED <<subscriptions, chat_history, gmaps, last_store_cache,
                           fetched, generations>>

--------------------------------------------------------------------------
(* ui_get_directions.                                                      *)

\* next((x for x in (...) if x["id"] == store_id), None)
FirstWithId(space, store_id) ==
    IF \E i \in 1 .. Len(space) : space[i].id = store_id
    THEN Some(space[CHOOSE i \in 1 .. Len(space) :
                       /\ space[i].id = store_id
                       /\ \A k \in 1 .. i - 1 : space[k].id # store_id])
    ELSE None

ui_get_directions ==
    \E store_id \in StoreIds :
        LET space == SearchSpace(last_store_cache)
        IN  /\ ret' = [op |-> "ui_get_directions", store_id |-> store_id,
                       search_space |-> space, s |-> FirstWithId(space, store_id)]
            /\ UNCHANGED <<subscriptions, chat_history, gmaps, inventory,
                           dynamic_inventory, last_store_cache,
                           fetched, generations, restocks>>

--------------------------------------------------------------------------
(* ui_compare_prices.                                                      *)

\* the rows of lines 275-288, from store i on
RECURSIVE CompareRows(_, _, _, _, _, _, _)
CompareRows(inv, dyn, space, i, rows, product, rnd) ==
    IF i > Len(space) THEN [dyn |-> dyn, rows |-> rows]
    ELSE LET d == DrawOf(rnd, space[i].id, product)
             r == check_stock(inv, dyn, space[i].id, product, d.q, d.pr)
         IN  CompareRows(inv, r.dyn, space, i + 1,
                         Append(rows, [store_id |-> space[i].id, qty |-> r.info.qty,
                                       price |-> r.info.price]),
                         product, rnd)

\* row a sorts strictly before row b: qty descending, then price ascending,
\* a missing price last
RowBefore(a, b) ==
    \/ a.qty > b.qty
    \/ /\ a.qty = b.qty
       /\ a.price # None
       /\ b.price = None \/ a.price[1] < b.price[1]

\* df.sort_values(by=["qty","price"], ascending=[False, True]): a stable
\* insertion of row into the sorted rows
SortedInsert(sorted, row) ==
    LET k == Cardinality({j \in 1 .. Len(sorted) : ~RowBefore(row, sorted[j])})
    IN  SubSeq(sorted, 1, k) \o <<row>> \o SubSeq(sorted, k + 1, Len(sorted))

RECURSIVE SortRows(_, _, _)
SortRows(rows, i, sorted) ==
    IF i > Len(rows) THEN sorted
    ELSE SortRows(rows, i + 1, SortedInsert(sorted, rows[i]))

\* `if city: fetch_stores(...)`: called without a city, or with one and
\* the list fetch_stores then builds
ui_compare_prices ==
    \E product \in Products, fetch \in {None} \cup {Some(r) : r \in FetchResults} :
        LET cache == IF fetch # None THEN fetch[1] ELSE last_store_cache
            space == SearchSpace(cache)
            gen == GenPairs(inventory, dynamic_inventory, space, {product})
        IN  /\ Writes(Cardinality(gen)) <= MaxWrites
            /\ generations' = generations + Cardinality(gen)
            /\ last_store_cache' = cache
            /\ fetched' = IF fetch # None THEN Some(cache) ELSE fetched
            /\ \E rnd \in [gen -> Draw] :
                 LET r == CompareRows(inventory, dynamic_inventory, space, 1, << >>,
                                      product, rnd)
                 IN  /\ dynamic_inventory' = r.dyn
                     /\ ret' = [op |-> "ui_compare_prices", product |-> product,
                                search_space |-> space,
                                df |-> SortRows(r.rows, 1, << >>)]
            /\ UNCHANGED <<subscriptions, chat_history, gmaps, inventory,
                           restocks>>

--------------------------------------------------------------------------
Next ==
    \/ fetch_stores
    \/ CheckStock
    \/ find_cheapest
    \/ shopping_list_optimize
    \/ simulate_restock
    \/ ui_get_directions
    \/ ui_compare_prices

Spec == Init /\ [][Next]_vars

--------------------------------------------------------------------------
(* run_agent. agent.invoke is the external dispatcher: it may call a tool  *)
(* (here SubscribeAlertTool, at most once), and it returns a response or   *)
(* raises; an exception of the tool is raised by agent.invoke.             *)

\* q.split("|", 1) on the tool inputs in play
SplitPipe(q) ==
    CASE q = "xyz shampoo |Pune" -> <<"xyz shampoo ", "Pune">>
      [] OTHER                   -> <<q>>

\* _tool_subscribe_alert(q): `product, city = q.split("|", 1)` raises
\* ValueError unless the split gives two parts
ToolSubscribeAlert(subs, q) ==
    LET parts == SplitPipe(q)
    IN  IF Len(parts) = 2
        THEN [raised |-> None, subs |-> Subscribed(subs, parts[1], parts[2])]
        ELSE [raised |-> Some("unpack"), subs |-> subs]

\* str(response) on the responses in play
Str(response) ==
    IF response.dict
    THEN (IF response.output_text # None THEN "{output_text}" ELSE "{}")
    ELSE "raw"

\* lines 389-392: the answer taken from the response
AnswerOf(response) ==
    IF response.dict
    THEN IF response.output # None THEN response.output[1]
         ELSE IF response.output_text # None THEN response.output_text[1]
         ELSE Str(response)
    ELSE Str(response)

\* lines 394-395: a mutation that stores the assistant turn only
TurnStoredAssistantOnly(history, query, answer) ==
    Append(history, <<"assistant", answer>>)

\* lines 394-395: chat_history.append(("user", query)) and
\* chat_history.append(("assistant", answer))
TurnStored(history, query, answer) ==
    Append(Append(history, <<"user", query>>), <<"assistant", answer>>)

\* f"Agent error: {e}"
AgentError(e) == <<"Agent error: ", e>>

\* the return value is a sequence of the parts of the string returned: the
\* answer, or "Agent error: " and the message of the exception
run_agent ==
    \E query \in Queries,
       tool \in {None} \cup {Some(q) : q \in ToolInputs},
       reply \in {[raised |-> Some(e)] : e \in DispatchErrors}
                 \cup {[raised |-> None, response |-> r] : r \in Responses} :
        LET t == IF tool # None THEN ToolSubscribeAlert(subscriptions, tool[1])
                 ELSE [raised |-> None, subs |-> subscriptions]
            raised == IF t.raised # None THEN t.raised ELSE reply.raised
        IN  /\ Len(t.subs) <= MaxSubs
            /\ subscriptions' = t.subs
            /\ IF raised = None
               THEN LET answer == AnswerOf(reply.response)
                    IN  /\ Len(chat_history) < 2 * MaxTurns
                        /\ chat_history' = TurnStored(chat_history, query, answer)
                        /\ ret' = [op |-> "run_agent", query |-> query,
                                   raised |-> FALSE, value |-> <<answer>>]
               ELSE /\ chat_history' = chat_history
                    /\ ret' = [op |-> "run_agent", query |-> query,
                               raised |-> TRUE, value |-> AgentError(raised[1])]
            /\ UNCHANGED <<gmaps, inventory, dynamic_inventory, last_store_cache,
                           fetched, generations, restocks>>

NextAgent == run_agent

SpecAgent == Init /\ [][NextAgent]_vars

--------------------------------------------------------------------------
(* The alert registry: the two operations that read or write               *)
(* _subscriptions.                                                         *)

NextAlerts ==
    \/ subscribe_alert
    \/ simulate_restock

SpecAlerts == Init /\ [][NextAlerts]_vars

--------------------------------------------------------------------------
(* The optimizer as a function of the inventory: every price table over    *)
(* stores 1..GStores and the products and prices of the worked example; a  *)
(* product a store does not stock is an entry of quantity 0, as "Milk      *)
(* Lotion" is in store 1 of the seed inventory.                            *)

GEntries ==
    {[qty |-> 0, price |-> 10]} \cup {[qty |-> 1, price |-> p] : p \in GPrices}

InitGreedy ==
    /\ gmaps = TRUE
    /\ inventory \in [1 .. GStores -> [GProducts -> GEntries]]
    /\ dynamic_inventory = EmptyDict
    /\ last_store_cache = PlacesResults(GStores)
    /\ fetched = Some(PlacesResults(GStores))
    /\ subscriptions = << >>
    /\ chat_history = << >>
    /\ generations = 0
    /\ restocks = 0
    /\ ret = NoCall

GRawNeeded == NeededSets(GRawNames)

optimize_example == Optimize(GRawNeeded)

\* one call for each price table drawn: the call writes nothing it reads,
\* so a second call on the same table returns what the first returned
NextGreedy ==
    /\ ret = NoCall
    /\ optimize_example

SpecGreedy == InitGreedy /\ [][NextGreedy]_vars

--------------------------------------------------------------------------
(* What the claims are stated with.                                        *)

\* the ids of a store sequence
Ids(space) == {space[i].id : i \in 1 .. Len(space)}

\* the entry the inventories hold for (sid, product), if any
HasEntry(sid, product) ==
    IF sid \in DOMAIN inventory THEN product \in DOMAIN inventory[sid]
    ELSE sid \in DOMAIN dynamic_inventory /\ product \in DOMAIN dynamic_inventory[sid]

\* a read of (sid, product) draws nothing: the store is seeded, or the
\* pair has a dynamic entry
Settled(sid, product) == sid \in DOMAIN inventory \/ HasEntry(sid, product)

\* the quantity and price a read of a settled pair reports
Reported(sid, product) ==
    IF HasEntry(sid, product)
    THEN LET e == IF sid \in DOMAIN inventory THEN inventory[sid][product]
                  ELSE dynamic_inventory[sid][product]
         IN  [qty |-> e.qty, price |-> Some(e.price)]
    ELSE [qty |-> 0, price |-> None]

\* the store offers the product: quantity > 0 and a price
Offered(sid, product) ==
    /\ Settled(sid, product)
    /\ Reported(sid, product).qty > 0
    /\ Reported(sid, product).price # None

IsPlan == ret.op = "shopping_list_optimize" /\ ~ret.message

RECURSIVE SumOfSubtotals(_, _)
SumOfSubtotals(plan, i) ==
    IF i > Len(plan) THEN 0 ELSE plan[i].subtotal + SumOfSubtotals(plan, i + 1)

RECURSIVE SumOfItems(_, _)
SumOfItems(items, keys) ==
    IF keys = {} THEN 0
    ELSE LET k == CHOOSE x \in keys : TRUE
         IN  items[k] + SumOfItems(items, keys \ {k})

--------------------------------------------------------------------------
\* C1: a plan result's not_found is exactly the requested products that no
\* store of the store set offers (quantity > 0 and a price); so when every
\* requested product is offered somewhere covered_all is true and not_found
\* is empty, and covered_all holds exactly when not_found is empty.
C1_NotFoundExact ==
    IsPlan =>
        LET r == ret.result
            unoffered == {p \in ret.needed :
                            \A sid \in Ids(ret.search_space) : ~Offered(sid, p)}
        IN  /\ ret.needed # {}
            /\ r.not_found = unoffered
            /\ r.covered_all <=> r.not_found = {}
            /\ (\A p \in ret.needed : \E sid \in Ids(ret.search_space) : Offered(sid, p))
                  => r.covered_all /\ r.not_found = {}

\* a partial cover: something is bought and something is not found
C1_Witness ==
    /\ IsPlan
    /\ ret.result.not_found # {}
    /\ ret.result.plan # << >>
    /\ ~ret.result.covered_all

\* C2: no store id appears in two plan entries; the store chosen in an
\* iteration is not among the candidates left after it, and every later
\* entry's store is taken from the candidates left.
C2_StoreUsedOnce ==
    IsPlan =>
        LET plan == ret.result.plan
        IN  \A i \in 1 .. Len(plan) :
              /\ \A k \in 1 .. Len(plan[i].left) : plan[i].left[k] # plan[i].store_id
              /\ \A j \in (i + 1) .. Len(plan) :
                    /\ plan[j].store_id # plan[i].store_id
                    /\ \E k \in 1 .. Len(plan[i].left) : plan[i].left[k] = plan[j].store_id

\* a plan of two stores
C2_Witness == IsPlan /\ Len(ret.result.plan) >= 2

\* C3: total_cost (in hundredths) is the sum of the plan's subtotals, and
\* each subtotal is the sum of the prices of the entry's items.
C3_TotalIsSumOfSubtotals ==
    IsPlan =>
        LET plan == ret.result.plan
        IN  /\ ret.result.total_cost = Hundred * SumOfSubtotals(plan, 1)
            /\ \A i \in 1 .. Len(plan) :
                  plan[i].subtotal = SumOfItems(plan[i].items, DOMAIN plan[i].items)

\* two entries, one of them with two items
C3_Witness ==
    /\ IsPlan
    /\ Len(ret.result.plan) >= 2
    /\ \E i \in 1 .. Len(ret.result.plan) :
          Cardinality(DOMAIN ret.result.plan[i].items) >= 2
    /\ ret.result.total_cost > 0

--------------------------------------------------------------------------
\* the step is a simulate_restock on the pair
RestockOf(sid, product) ==
    /\ ret'.op = "simulate_restock"
    /\ restocks' # restocks
    /\ ret'.store_id = sid
    /\ ret'.product = product

\* a check_stock call returns what the inventories hold for its pair
C4_ReadIsReported ==
    ret.op = "check_stock" =>
        /\ Settled(ret.info.store_id, ret.info.product)
        /\ ret.info.qty = Reported(ret.info.store_id, ret.info.product).qty
        /\ ret.info.price = Reported(ret.info.store_id, ret.info.product).price

\* no call other than a simulate_restock on the pair changes what a read of
\* a settled pair reports (a read depends on the two inventories only, so
\* a step that leaves both alone keeps every report)
C4_ReportKept ==
    \/ UNCHANGED <<inventory, dynamic_inventory>>
    \/ \A sid \in StoreIds, product \in Products :
        (Settled(sid, product) /\ ~RestockOf(sid, product)) =>
            /\ Settled(sid, product)'
            /\ Reported(sid, product)' = Reported(sid, product)

\* C4: the first check_stock on a pair fixes its quantity and price: the
\* call settles the pair and returns what the inventories then hold, and
\* whatever fetch_stores, find_cheapest, shopping_list_optimize, check_stock
\* and the ui calls follow, a later check_stock returns the same quantity and
\* price, until a simulate_restock on that pair.
C4_CheckStockIdempotent == []C4_ReadIsReported /\ [][C4_ReportKept]_vars

\* a read of a generated entry by a call that generated nothing: a repeated
\* read of a pair outside the seed inventory
C4_Witness ==
    /\ ret.op = "check_stock"
    /\ ~ret.generated
    /\ ret.info.store_id \notin DOMAIN inventory
    /\ ret.info.price # None
    /\ restocks = 0

C6_GeneratedEntryReturned ==
    (ret.op = "check_stock" /\ ret.generated) =>
        LET sid == ret.info.store_id
            product == ret.info.product
        IN  /\ sid \in DOMAIN dynamic_inventory
            /\ product \in DOMAIN dynamic_inventory[sid]
            /\ ret.info.qty = dynamic_inventory[sid][product].qty
            /\ ret.info.price = Some(dynamic_inventory[sid][product].price)
            /\ ret.info.price # None

\* the store set a call iterated over
UsesStoreSet ==
    \/ ret.op \in {"find_cheapest", "ui_get_directions", "ui_compare_prices"}
    \/ IsPlan

\* C7 (as claimed): once a fetch has occurred, the store set iterated is
\* the result of the most recent fetch, also when that result is empty.
C7_LatestFetchAlways ==
    (UsesStoreSet /\ fetched # None) => ret.search_space = fetched[1]

\* C7 (amended): the store set iterated is the result of the most recent
\* fetch when that result is non-empty; it is the fallback list when no
\* fetch has occurred or the most recent fetch returned an empty list.
C7_LatestFetchUnlessEmpty ==
    UsesStoreSet =>
        /\ (fetched # None /\ fetched[1] # << >>) => ret.search_space = fetched[1]
        /\ (fetched = None \/ fetched[1] = << >>) =>
              /\ Len(ret.search_space) = Len(stores_fallback)
              /\ \A i \in 1 .. Len(stores_fallback) :
                    ret.search_space[i].id = stores_fallback[i].id
        /\ last_store_cache = IF fetched = None THEN << >> ELSE fetched[1]

\* a call iterates the fallback list after a fetch that returned nothing
C7_Witness ==
    /\ UsesStoreSet
    /\ fetched = Some(<< >>)
    /\ Len(ret.search_space) = Len(stores_fallback)

\* C8 (as claimed): every stored quantity and every quantity check_stock
\* returns is non-negative.
C8_QuantitiesNonNegative ==
    /\ \A sid \in DOMAIN inventory : \A p \in DOMAIN inventory[sid] :
          inventory[sid][p].qty >= 0
    /\ \A sid \in DOMAIN dynamic_inventory : \A p \in DOMAIN dynamic_inventory[sid] :
          dynamic_inventory[sid][p].qty >= 0
    /\ ret.op = "check_stock" => ret.info.qty >= 0

--------------------------------------------------------------------------
(* The reference greedy weighted set cover, stated on the inventories.     *)

\* the products of rem the store offers
RefCover(sid, rem) == {p \in rem : Offered(sid, p)}

RECURSIVE RefCost(_, _)
RefCost(sid, ps) ==
    IF ps = {} THEN 0
    ELSE LET p == CHOOSE x \in ps : TRUE
         IN  Reported(sid, p).price[1] + RefCost(sid, ps \ {p})

\* score(a) < score(b) and score(a) <= score(b) over rem, the score being
\* the cost of the cover divided by its size
ScoreBelow(a, b, rem) ==
    RefCost(a, RefCover(a, rem)) * Cardinality(RefCover(b, rem))
        < RefCost(b, RefCover(b, rem)) * Cardinality(RefCover(a, rem))

ScoreNotAbove(a, b, rem) ==
    RefCost(a, RefCover(a, rem)) * Cardinality(RefCover(b, rem))
        <= RefCost(b, RefCover(b, rem)) * Cardinality(RefCover(a, rem))

\* before iteration k: the products still remaining, the stores chosen, and
\* the positions (in store-set order) of the candidates
RemainingAt(k) ==
    ret.needed \ UNION {DOMAIN ret.result.plan[i].items : i \in 1 .. k - 1}

ChosenBefore(k) == {ret.result.plan[i].store_id : i \in 1 .. k - 1}

CandidatesAt(k) ==
    {i \in 1 .. Len(ret.search_space) :
        /\ ret.search_space[i].id \notin ChosenBefore(k)
        /\ RefCover(ret.search_space[i].id, RemainingAt(k)) # {}}

\* entry k of the plan is the reference step
RefStep(k) ==
    LET e == ret.result.plan[k]
        rem == RemainingAt(k)
        space == ret.search_space
    IN  \E c \in CandidatesAt(k) :
          /\ space[c].id = e.store_id
          /\ \A j \in CandidatesAt(k) :
                /\ j < c => ScoreBelow(e.store_id, space[j].id, rem)
                /\ j > c => ScoreNotAbove(e.store_id, space[j].id, rem)
          /\ DOMAIN e.items = RefCover(e.store_id, rem)
          /\ \A p \in DOMAIN e.items : e.items[p] = Reported(e.store_id, p).price[1]
          /\ e.subtotal = RefCost(e.store_id, RefCover(e.store_id, rem))

\* the worked example: A = store 1 (Milk 10, Rice 5), B = store 2 (Rice 4,
\* Bread 3), no other store offers anything
IsExample ==
    /\ Offered(1, "Milk")  /\ Reported(1, "Milk").price = Some(10)
    /\ Offered(1, "Rice")  /\ Reported(1, "Rice").price = Some(5)
    /\ ~Offered(1, "Bread")
    /\ ~Offered(2, "Milk")
    /\ Offered(2, "Rice")  /\ Reported(2, "Rice").price = Some(4)
    /\ Offered(2, "Bread") /\ Reported(2, "Bread").price = Some(3)
    /\ \A sid \in DOMAIN inventory \ {1, 2} : \A p \in GProducts : ~Offered(sid, p)
    /\ IsPlan
    /\ ret.needed = GProducts

\* C9: the plan is the reference greedy cover step by step: each entry's
\* store is the first store, in store-set order, among the stores not yet
\* chosen with a non-empty cover of the remaining products, whose score is
\* lowest (earlier candidates score strictly higher), with that cover as
\* its items; the loop stops only when nothing remains or no candidate is
\* left; on the worked example the plan is [B: 7, A: 10], total 17, all
\* covered.
C9_GreedyIsReference ==
    IsPlan =>
        LET r == ret.result
            n == Len(r.plan)
        IN  /\ \A k \in 1 .. n : RefStep(k)
            /\ RemainingAt(n + 1) = {} \/ CandidatesAt(n + 1) = {}
            /\ r.not_found = RemainingAt(n + 1)
            /\ IsExample =>
                  /\ n = 2
                  /\ r.plan[1].store_id = 2
                  /\ r.plan[1].items = ("Rice" :> 4 @@ "Bread" :> 3)
                  /\ r.plan[1].subtotal = 7
                  /\ r.plan[2].store_id = 1
                  /\ r.plan[2].items = ("Milk" :> 10)
                  /\ r.plan[2].subtotal = 10
                  /\ r.total_cost = 17 * Hundred
                  /\ r.covered_all

\* the worked example has been optimized
C9_Witness == IsExample /\ Len(ret.result.plan) = 2

--------------------------------------------------------------------------
(* The cheapest way to buy the covered products.                           *)

Covered == ret.needed \ ret.result.not_found

\* the assignments of each covered product to a store that offers it
Assignments ==
    {f \in [Covered -> Ids(ret.search_space)] : \A p \in Covered : Offered(f[p], p)}

RECURSIVE AssignmentCost(_, _)
AssignmentCost(f, ps) ==
    IF ps = {} THEN 0
    ELSE LET p == CHOOSE x \in ps : TRUE
         IN  Reported(f[p], p).price[1] + AssignmentCost(f, ps \ {p})

MinimumCost ==
    LET costs == {AssignmentCost(f, Covered) : f \in Assignments}
    IN  CHOOSE c \in costs : \A d \in costs : c <= d

\* the assignment the plan makes
PlanAssignment ==
    [p \in Covered |->
        (CHOOSE i \in 1 .. Len(ret.result.plan) :
            p \in DOMAIN ret.result.plan[i].items)]

--------------------------------------------------------------------------
(* C11: the subscription list.                                             *)

\* the entries of the subscription list that a restock of product counts:
\* those whose product is product up to case, each position on its own
Counted(product) ==
    {i \in 1 .. Len(subscriptions) :
        Lower(subscriptions[i].product) = Lower(product)}

\* a simulate_restock call reports the number of counted entries
C11_CountIsMatches ==
    ret.op = "simulate_restock" => ret.hits = Cardinality(Counted(ret.product))

\* a subscribe_alert call adds its entry at the end and every other call
\* leaves the list as it is
C11_AppendOnly ==
    IF ret'.op = "subscribe_alert"
    THEN /\ Len(subscriptions') = Len(subscriptions) + 1
         /\ SubSeq(subscriptions', 1, Len(subscriptions)) = subscriptions
         /\ subscriptions'[Len(subscriptions')] =
                [product |-> Strip(ret'.product), city |-> Strip(ret'.city)]
    ELSE subscriptions' = subscriptions

\* C11: the subscription list is append-only and never deduplicated: a
\* subscribe_alert call adds exactly one entry, at the end, and no call
\* removes or changes an entry; simulate_restock reports the number of
\* entries whose product equals the restocked product ignoring case,
\* duplicates counted separately, whatever the entry's city and the store
\* restocked, and leaves the list unchanged.
C11_SubscriptionsAppendOnly == []C11_CountIsMatches /\ [][C11_AppendOnly]_vars

\* a restock that counts two equal subscriptions, of another case than the
\* restocked product and of a city that is not the store's
C11_Witness ==
    /\ ret.op = "simulate_restock"
    /\ Len(subscriptions) = 2
    /\ subscriptions[1] = subscriptions[2]
    /\ subscriptions[1].product # ret.product
    /\ \A i \in 1 .. Len(stores_fallback) :
          stores_fallback[i].id = ret.store_id =>
              Lower(stores_fallback[i].city) # Lower(subscriptions[1].city)
    /\ ret.store_id \in DOMAIN inventory
    /\ ret.hits = 2

--------------------------------------------------------------------------
(* C12: run_agent and the chat transcript.                                 *)

\* the transcript has even length and its roles alternate, user first
C12_Alternates ==
    /\ Len(chat_history) % 2 = 0
    /\ \A i \in 1 .. Len(chat_history) :
          chat_history[i][1] = IF i % 2 = 1 THEN "user" ELSE "assistant"

\* a run_agent call that met an exception returns the error string
C12_ErrorReturned ==
    (ret.op = "run_agent" /\ ret.raised) =>
        /\ Len(ret.value) = 2
        /\ ret.value[1] = "Agent error: "

\* a failed call leaves the transcript as it is; an answered call adds
\* (user, query) then (assistant, answer) at the end, the answer being
\* what it returns
C12_Step ==
    IF ret'.op = "run_agent" /\ ~ret'.raised
    THEN /\ Len(chat_history') = Len(chat_history) + 2
         /\ SubSeq(chat_history', 1, Len(chat_history)) = chat_history
         /\ chat_history'[Len(chat_history) + 1] = <<"user", ret'.query>>
         /\ chat_history'[Len(chat_history) + 2] = <<"assistant", ret'.value[1]>>
    ELSE chat_history' = chat_history

\* C12: run_agent returns in every case: when the dispatcher or a tool
\* call raises, it returns a string that starts with "Agent error:" and
\* leaves the transcript unchanged; when the dispatcher answers, it appends
\* exactly (user, query) then (assistant, answer); so the transcript only
\* grows, keeps its earlier turns in place, and always has even length
\* with alternating user and assistant roles.
C12_TranscriptOfAnsweredTurns ==
    /\ []C12_Alternates
    /\ []C12_ErrorReturned
    /\ [][C12_Step]_vars

\* a call that fails in the tool, after an answered call and a tool call
\* that subscribed
C12_Witness ==
    /\ ret.op = "run_agent"
    /\ ret.raised
    /\ ret.value = AgentError("unpack")
    /\ Len(chat_history) = 2
    /\ Len(subscriptions) = 1

--------------------------------------------------------------------------
(* C13: the plan's items partition the requested set.                      *)

\* the products of plan entry i
ItemsOf(i) == DOMAIN ret.result.plan[i].items

\* C13: in a plan result the requested set holds trimmed, non-empty names;
\* the item sets of the plan entries are non-empty and pairwise disjoint,
\* and with not_found they partition the requested set, so a product is
\* bought from at most one store and nothing outside the request is
\* bought; each price in the plan is the price the entry's store offers
\* for the product.
C13_PlanPartitionsNeeded ==
    IsPlan =>
        LET plan == ret.result.plan
        IN  /\ \A p \in ret.needed : p # "" /\ Strip(p) = p
            /\ \A i \in 1 .. Len(plan) : ItemsOf(i) # {}
            /\ \A i, j \in 1 .. Len(plan) : i # j => ItemsOf(i) \cap ItemsOf(j) = {}
            /\ \A i \in 1 .. Len(plan) : ItemsOf(i) \cap ret.result.not_found = {}
            /\ UNION {ItemsOf(i) : i \in 1 .. Len(plan)} \cup ret.result.not_found
                  = ret.needed
            /\ \A i \in 1 .. Len(plan) : \A p \in ItemsOf(i) :
                  /\ Offered(plan[i].store_id, p)
                  /\ Reported(plan[i].store_id, p).price = Some(plan[i].items[p])

\* a plan of two stores for three products, of which the second store
\* also offers a product bought at the first
C13_Witness ==
    /\ IsPlan
    /\ Cardinality(ret.needed) = 3
    /\ Len(ret.result.plan) = 2
    /\ \E p \in ItemsOf(1) : Offered(ret.result.plan[2].store_id, p)

====
